---- MODULE Spec2Model ----
(***************************************************************************)
(* State-machine model of seo_analyst_app.py: the "Analyze Keyword"        *)
(* handler, analyze_competitor_landscape, analyze_with_claude and the      *)
(* session history.  Every external call (DataForSEO, Anthropic) is one    *)
(* step whose response is chosen by the environment.                       *)
(*                                                                         *)
(* Encoding of Python values.  A slot that holds an int, None or a missing *)
(* dict key is an integer: Missing (the key is not in the dict), PyNone    *)
(* (the value None) or the number itself.  The string "Not in top 10" in   *)
(* the position slot is NotInTop10.  Optional objects (a parsed response,  *)
(* the landscape record, the prompt, current_analysis) are sequences of    *)
(* length 0 (None / unset) or 1.  Domains are sequences of characters so   *)
(* that lower() and substring containment are computed, not assumed.       *)
(***************************************************************************)
EXTENDS Integers, Sequences, FiniteSets, TLC

\* ------------------------------------------------------------------ bounds
MaxItems == 6        \* longest SERP item list of the wide family
MinListed == 2       \* fewest competitors listed in the session family
MaxListed == 4       \* most competitors listed in the session family
MaxRuns == 2         \* analysis runs per session

\* ------------------------------------------------------- program constants
OK_STATUS == 20000
BACKLINK_TOP == 3
KEEP_TOP == 5

Missing == 0 - 3
PyNone == 0 - 1
NotInTop10 == 0 - 2

VARIABLES pc, keyword, your_domain, serp_items, your_position, your_url,
          competitors, kw_metrics, your_bl_data, idx, landscape_data, prompt,
          calls, last_response, outcome, analysis_history, current_analysis,
          clock, prev_history, prev_current

vars == <<pc, keyword, your_domain, serp_items, your_position, your_url,
          competitors, kw_metrics, your_bl_data, idx, landscape_data, prompt,
          calls, last_response, outcome, analysis_history, current_analysis,
          clock, prev_history, prev_current>>

\* ------------------------------------------------------------ Python helpers
Min(a, b) == IF a < b THEN a ELSE b

\* s[:n]
Take(s, n) == SubSeq(s, 1, Min(n, Len(s)))

\* str.lower() on the characters the model uses
LowerChar(c) == IF c = "A" THEN "a" ELSE IF c = "B" THEN "b" ELSE IF c = "X" THEN "x" ELSE c

lower(s) == [i \in 1..Len(s) |-> LowerChar(s[i])]

\* sub in s
Contains(sub, s) ==
    \E i \in 0..Len(s) : i + Len(sub) <= Len(s) /\ SubSeq(s, i + 1, i + Len(sub)) = sub

\* dict.get(key, default) on an integer slot
Get(slot, default) == IF slot = Missing THEN default ELSE slot

\* dict.get(key): None when the key is missing
GetOrNone(slot) == Get(slot, PyNone)

\* [] / {} / None are falsy
NoResult == <<>>

EmptyMetrics == [keyword_difficulty |-> Missing, search_volume |-> Missing, cpc |-> Missing]

EmptyBacklinks == [backlinks |-> Missing, referring_domains |-> Missing, rank |-> Missing]

\* ------------------------------------------------------------- environment
\* What the form holds when the button is pressed.
FormDomain == <<"A", "b">>

FormKeyword == "best crm software"

Forms ==
    {[login |-> l, password |-> "pw", anthropic_key |-> k, your_domain |-> d, keyword |-> FormKeyword] :
        l \in {"", "login"}, k \in {"", "key"}, d \in {<<>>, FormDomain}}

\* all([...]) of the handler
AllFilled(form) ==
    /\ form.login # ""
    /\ form.password # ""
    /\ form.anthropic_key # ""
    /\ form.your_domain # <<>>
    /\ form.keyword # ""

\* Domains the provider lists: one contains the form's domain up to case,
\* the other is a proper part of it.
MatchingDomain == <<"x", "a", "b">>

OtherDomain == <<"b">>

ItemKinds == {[type |-> t, domain |-> d] : t \in {"organic", "paid"}, d \in {MatchingDomain, OtherDomain}}

RankOrders == {"ascending", "descending", "absent"}

\* rank_absolute of the i-th of n listed items
RankOf(order, i, n) ==
    IF order = "ascending" THEN i ELSE IF order = "descending" THEN n + 1 - i ELSE Missing

Listing(kinds, order) ==
    [i \in 1..Len(kinds) |->
        [type |-> kinds[i].type, domain |-> kinds[i].domain, url |-> i,
         rank_absolute |-> RankOf(order, i, Len(kinds))]]

KindSeqs(n) == UNION {[1..m -> ItemKinds] : m \in 0..n}

\* every listing of at most MaxItems items
WideLists == {Listing(k, o) : k \in KindSeqs(MaxItems), o \in RankOrders}

SelfKind == [type |-> "organic", domain |-> MatchingDomain]

RivalKind == [type |-> "organic", domain |-> OtherDomain]

\* no entry at all, or the site itself followed by c competitors in rank order
SessionLists ==
    {<<>>} \cup {Listing(<<SelfKind>> \o [i \in 1..c |-> RivalKind], "ascending") :
                    c \in MinListed..MaxListed}

TransportError == [transport |-> "error", status_code |-> 0, tasks |-> <<>>]

Rejected == [transport |-> "ok", status_code |-> 40100, tasks |-> <<>>]

NoTasks == [transport |-> "ok", status_code |-> OK_STATUS, tasks |-> <<>>]

TaskFailed == [transport |-> "ok", status_code |-> OK_STATUS,
               tasks |-> <<[status_code |-> 40501, result |-> NoResult]>>]

TaskResult(r) == [transport |-> "ok", status_code |-> OK_STATUS,
                  tasks |-> <<[status_code |-> OK_STATUS, result |-> r]>>]

SerpResponses(lists) ==
    {TransportError, Rejected, NoTasks, TaskFailed, TaskResult(NoResult)}
        \cup {TaskResult(<<[items |-> l]>>) : l \in lists}

\* the item of the keyword-difficulty result: complete, or with one field or
\* all three omitted
KwValues ==
    {[keyword_difficulty |-> IF "kd" \in omitted THEN Missing ELSE 40,
      search_volume |-> IF "sv" \in omitted THEN Missing ELSE 1200,
      cpc |-> IF "cpc" \in omitted THEN Missing ELSE 2] :
        omitted \in {{}, {"kd"}, {"sv"}, {"cpc"}, {"kd", "sv", "cpc"}}}

AllKwResponses ==
    {TransportError, Rejected, NoTasks, TaskResult(NoResult), TaskResult(<<[items |-> <<>>]>>)}
        \cup {TaskResult(<<[items |-> <<v>>]>>) : v \in KwValues}

FewKwResponses == {TransportError, TaskResult(<<[items |-> <<[keyword_difficulty |-> 40, search_volume |-> 1200, cpc |-> 2]>>]>>)}

\* the summary the provider returns to the k-th call of a run (no rank field)
Summary(k) == [backlinks |-> 1000 * k, referring_domains |-> k, rank |-> Missing]

AllBacklinkResponses(k) ==
    {TransportError, Rejected, NoTasks, TaskResult(NoResult), TaskResult(<<Summary(k)>>)}

FewBacklinkResponses(k) == {TransportError, TaskResult(<<Summary(k)>>)}

ModelError == [transport |-> "error", text |-> ""]

ModelText == [transport |-> "ok", text |-> "strategy text"]

ModelResponses == {ModelError, ModelText}

\* ------------------------------------------------------- dataforseo_request
\* None (<<>>) on a transport error or a top-level status other than 20000
dataforseo_request(resp) ==
    IF resp.transport = "error" THEN <<>>
    ELSE IF resp.status_code = OK_STATUS THEN <<resp>> ELSE <<>>

\* --------------------------------------------- analyze_competitor_landscape
NewCompetitor(item, position) ==
    [position |-> position, domain |-> item.domain, url |-> item.url,
     has_backlink_data |-> FALSE, backlink_data |-> EmptyBacklinks]

\* ParseItem without the test of the entry's type
ParseItem_AnyType(acc, item, domain) ==
    LET position == Get(item.rank_absolute, 0) IN
    IF Contains(lower(domain), lower(item.domain))
    THEN [acc EXCEPT !.your_position = position, !.your_url = item.url]
    ELSE [acc EXCEPT !.competitors = Append(@, NewCompetitor(item, position))]

\* one iteration of the loop over serp_items
ParseItem(acc, item, domain) ==
    IF item.type # "organic" THEN acc
    ELSE LET position == Get(item.rank_absolute, 0) IN
         IF Contains(lower(domain), lower(item.domain))
         THEN [acc EXCEPT !.your_position = position, !.your_url = item.url]
         ELSE [acc EXCEPT !.competitors = Append(@, NewCompetitor(item, position))]

RECURSIVE ParseLoop(_, _, _, _)
ParseLoop(items, i, acc, domain) ==
    IF i > Len(items) THEN acc
    ELSE ParseLoop(items, i + 1, ParseItem(acc, items[i], domain), domain)

\* not your_position
Falsy(position) == position = PyNone \/ position = 0

\* the loop followed by the "Not in top 10" default
ParseSerp(items, domain) ==
    LET start == [your_position |-> PyNone, your_url |-> PyNone, competitors |-> <<>>]
        acc == ParseLoop(items, 1, start, domain)
    IN  IF Falsy(acc.your_position) THEN [acc EXCEPT !.your_position = NotInTop10] ELSE acc

\* the three fields copied out of the keyword-difficulty item
KeywordMetrics(kw_data) ==
    [keyword_difficulty |-> GetOrNone(kw_data.keyword_difficulty),
     search_volume |-> GetOrNone(kw_data.search_volume),
     cpc |-> GetOrNone(kw_data.cpc)]

\* the three fields copied out of a backlink summary
BacklinkData(bl) ==
    [backlinks |-> Get(bl.backlinks, 0),
     referring_domains |-> Get(bl.referring_domains, 0),
     rank |-> Get(bl.rank, 0)]

\* response['tasks'][0]['result'] is truthy
HasResult(parsed) == parsed # <<>> /\ parsed[1].tasks[1].result # NoResult

\* response['tasks'][0] raises on a parsed response without tasks
RaisesOnTasks(parsed) == parsed # <<>> /\ parsed[1].tasks = <<>>

\* SerpAborts without the check of the first task's status
SerpAborts_NoTaskStatus(serp_result) ==
    \/ serp_result = <<>>
    \/ serp_result[1].tasks = <<>>

\* the two early returns after get_serp_live
SerpAborts(serp_result) ==
    \/ serp_result = <<>>
    \/ serp_result[1].tasks = <<>>
    \/ serp_result[1].tasks[1].status_code # OK_STATUS

\* KwStage subscripting the response before testing it for None
KwStage_FailureRaises(kw_difficulty) ==
    IF kw_difficulty = <<>> \/ RaisesOnTasks(kw_difficulty)
    THEN [raised |-> "TypeError", kw_metrics |-> EmptyMetrics]
    ELSE IF HasResult(kw_difficulty)
    THEN LET items == kw_difficulty[1].tasks[1].result[1].items IN
         IF items = <<>> THEN [raised |-> "IndexError", kw_metrics |-> EmptyMetrics]
         ELSE [raised |-> "", kw_metrics |-> KeywordMetrics(items[1])]
    ELSE [raised |-> "", kw_metrics |-> EmptyMetrics]

\* the keyword-metrics block: the exception it raises ("" for none) and kw_metrics
KwStage(kw_difficulty) ==
    IF RaisesOnTasks(kw_difficulty) THEN [raised |-> "IndexError", kw_metrics |-> EmptyMetrics]
    ELSE IF HasResult(kw_difficulty)
    THEN LET items == kw_difficulty[1].tasks[1].result[1].items IN
         IF items = <<>> THEN [raised |-> "IndexError", kw_metrics |-> EmptyMetrics]
         ELSE [raised |-> "", kw_metrics |-> KeywordMetrics(items[1])]
    ELSE [raised |-> "", kw_metrics |-> EmptyMetrics]

\* YourBacklinks defaulting a failed fetch to zeros
YourBacklinks_ZeroOnFailure(your_backlinks) ==
    IF HasResult(your_backlinks) THEN BacklinkData(your_backlinks[1].tasks[1].result[1])
    ELSE [backlinks |-> 0, referring_domains |-> 0, rank |-> 0]

\* your_bl_data after the call for the analysed domain
YourBacklinks(your_backlinks) ==
    IF HasResult(your_backlinks) THEN BacklinkData(your_backlinks[1].tasks[1].result[1])
    ELSE EmptyBacklinks

\* UpdateCompetitor where a failed fetch empties every competitor's profile
UpdateCompetitor_FailureClearsAll(comps, i, comp_bl) ==
    IF HasResult(comp_bl)
    THEN [comps EXCEPT ![i] =
            [@ EXCEPT !.has_backlink_data = TRUE,
                      !.backlink_data = BacklinkData(comp_bl[1].tasks[1].result[1])]]
    ELSE [j \in 1..Len(comps) |->
            [comps[j] EXCEPT !.has_backlink_data = (@ \/ j = i),
                             !.backlink_data = EmptyBacklinks]]

\* comp['backlink_data'] = ... for the competitor at idx
UpdateCompetitor(comps, i, comp_bl) ==
    [comps EXCEPT ![i] =
        [@ EXCEPT !.has_backlink_data = TRUE,
                  !.backlink_data = IF HasResult(comp_bl)
                                    THEN BacklinkData(comp_bl[1].tasks[1].result[1])
                                    ELSE EmptyBacklinks]]

\* Enriched without the [:3] slice
Enriched_All(comps) == Len(comps)

\* number of competitors the backlink loop visits
Enriched(comps) == Min(BACKLINK_TOP, Len(comps))

\* LandscapeRecord without the [:5] slice
LandscapeRecord_Untruncated ==
    [keyword |-> keyword, keyword_metrics |-> kw_metrics, my_position |-> your_position,
     my_domain |-> your_domain, my_url |-> your_url, my_backlinks |-> your_bl_data,
     competitors |-> competitors]

\* the dict the function returns
LandscapeRecord ==
    [keyword |-> keyword, keyword_metrics |-> kw_metrics, my_position |-> your_position,
     my_domain |-> your_domain, my_url |-> your_url, my_backlinks |-> your_bl_data,
     competitors |-> Take(competitors, KEEP_TOP)]

\* ------------------------------------------------------ analyze_with_claude
Digits3(n) ==
    IF n < 10 THEN "00" \o ToString(n) ELSE IF n < 100 THEN "0" \o ToString(n) ELSE ToString(n)

\* format(n, ',') for a non-negative int
RECURSIVE Thousands(_)
Thousands(n) ==
    IF n < 1000 THEN ToString(n) ELSE Thousands(n \div 1000) \o "," \o Digits3(n % 1000)

\* f"{d.get(key, 'N/A'):,}": the str default and None both reject ','
FormatComma(slot) ==
    IF slot = Missing THEN "ValueError"
    ELSE IF slot = PyNone THEN "TypeError" ELSE Thousands(slot)

\* f"{d.get(key, 'N/A')}"
FormatPlain(slot) ==
    IF slot = Missing THEN "N/A"
    ELSE IF slot = PyNone THEN "None" ELSE ToString(slot)

\* f"#{keyword_data['my_position']}"
FormatPosition(position) ==
    IF position = NotInTop10 THEN "Not in top 10"
    ELSE IF position = PyNone THEN "None" ELSE ToString(position)

Exceptions == {"ValueError", "TypeError", "IndexError", "ModelError"}

CompetitorLines(comp) ==
    [position |-> FormatPosition(comp.position),
     url |-> FormatPlain(comp.url),
     backlinks |-> FormatComma(comp.backlink_data.backlinks),
     referring_domains |-> FormatComma(comp.backlink_data.referring_domains),
     rank |-> FormatPlain(comp.backlink_data.rank)]

\* the rendered fields of the prompt, in the order they are evaluated
RenderPrompt(data) ==
    [search_volume |-> FormatComma(data.keyword_metrics.search_volume),
     keyword_difficulty |-> FormatPlain(data.keyword_metrics.keyword_difficulty),
     cpc |-> FormatPlain(data.keyword_metrics.cpc),
     my_position |-> FormatPosition(data.my_position),
     my_url |-> FormatPlain(data.my_url),
     backlinks |-> FormatComma(data.my_backlinks.backlinks),
     referring_domains |-> FormatComma(data.my_backlinks.referring_domains),
     rank |-> FormatPlain(data.my_backlinks.rank),
     competitors |-> [i \in 1..Len(data.competitors) |-> CompetitorLines(data.competitors[i])]]

\* the ','-formatted fields, in evaluation order
CommaFields(p) ==
    <<p.search_volume, p.backlinks, p.referring_domains>>
        \o [j \in 1..(2 * Len(p.competitors)) |->
               IF j % 2 = 1 THEN p.competitors[(j + 1) \div 2].backlinks
               ELSE p.competitors[j \div 2].referring_domains]

\* the exception the f-strings raise first, or "" when the prompt is built
PromptError(p) ==
    LET f == CommaFields(p)
        bad == {j \in 1..Len(f) : f[j] \in Exceptions}
    IN  IF bad = {} THEN "" ELSE f[CHOOSE j \in bad : \A k \in bad : j <= k]

\* -------------------------------------------------------------------- state
Init ==
    /\ pc = "idle"
    /\ keyword = ""
    /\ your_domain = <<>>
    /\ serp_items = <<>>
    /\ your_position = PyNone
    /\ your_url = PyNone
    /\ competitors = <<>>
    /\ kw_metrics = EmptyMetrics
    /\ your_bl_data = EmptyBacklinks
    /\ idx = 0
    /\ landscape_data = <<>>
    /\ prompt = <<>>
    /\ calls = <<>>
    /\ last_response = <<>>
    /\ outcome = "none"
    /\ analysis_history = <<>>
    /\ current_analysis = <<>>
    /\ clock = 0
    /\ prev_history = <<>>
    /\ prev_current = <<>>

session == <<analysis_history, current_analysis>>

snapshot == <<prev_history, prev_current>>

locals == <<serp_items, your_position, your_url, competitors, kw_metrics, your_bl_data,
            idx, landscape_data, prompt>>

Call(kind, target) == [kind |-> kind, target |-> target]

\* an exception leaves the handler: nothing after the raising line runs
Raise(exception) ==
    /\ pc' = "idle"
    /\ outcome' = exception

\* ------------------------------------------------------------------ actions
\* The button is pressed: the script reruns with fresh locals and the
\* handler checks the form.
Submit(limit) ==
    /\ pc = "idle"
    /\ clock < limit
    /\ \E form \in Forms :
         /\ keyword' = form.keyword
         /\ your_domain' = form.your_domain
         /\ IF AllFilled(form)
            THEN pc' = "serp" /\ outcome' = "running"
            ELSE pc' = "idle" /\ outcome' = "missing fields"
    /\ clock' = clock + 1
    /\ serp_items' = <<>>
    /\ your_position' = PyNone
    /\ your_url' = PyNone
    /\ competitors' = <<>>
    /\ kw_metrics' = EmptyMetrics
    /\ your_bl_data' = EmptyBacklinks
    /\ idx' = 0
    /\ landscape_data' = <<>>
    /\ prompt' = <<>>
    /\ calls' = <<>>
    /\ last_response' = <<>>
    /\ prev_history' = analysis_history
    /\ prev_current' = current_analysis
    /\ UNCHANGED session

\* get_serp_live, the checks on its result and the parse of the items.  A
\* None return ends the handler, which does nothing when it gets no record.
SerpCall(lists) ==
    /\ pc = "serp"
    /\ \E resp \in SerpResponses(lists) :
         LET serp_result == dataforseo_request(resp) IN
         /\ calls' = Append(calls, Call("serp", keyword))
         /\ last_response' = <<resp>>
         /\ IF SerpAborts(serp_result)
            THEN /\ pc' = "idle"
                 /\ outcome' = "no landscape"
                 /\ UNCHANGED <<serp_items, your_position, your_url, competitors>>
            ELSE LET task == serp_result[1].tasks[1]
                     items == IF task.result # NoResult THEN task.result[1].items ELSE <<>>
                     parsed == ParseSerp(items, your_domain)
                 IN  /\ serp_items' = items
                     /\ your_position' = parsed.your_position
                     /\ your_url' = parsed.your_url
                     /\ competitors' = parsed.competitors
                     /\ pc' = "kw"
                     /\ UNCHANGED outcome
    /\ UNCHANGED <<keyword, your_domain, kw_metrics, your_bl_data, idx, landscape_data, prompt,
                   clock, session, snapshot>>

\* get_keyword_difficulty and the copy of its first item
KwCall(responses) ==
    /\ pc = "kw"
    /\ \E resp \in responses :
         LET kw_difficulty == dataforseo_request(resp) IN
         /\ calls' = Append(calls, Call("kw", keyword))
         /\ last_response' = <<resp>>
         /\ IF KwStage(kw_difficulty).raised # ""
            THEN Raise(KwStage(kw_difficulty).raised) /\ UNCHANGED kw_metrics
            ELSE /\ kw_metrics' = KwStage(kw_difficulty).kw_metrics
                 /\ pc' = "self_bl"
                 /\ UNCHANGED outcome
    /\ UNCHANGED <<keyword, your_domain, serp_items, your_position, your_url, competitors,
                   your_bl_data, idx, landscape_data, prompt, clock, session, snapshot>>

\* get_backlinks_summary for the analysed domain
SelfBlCall(few) ==
    /\ pc = "self_bl"
    /\ \E resp \in (IF few THEN FewBacklinkResponses(Len(calls) + 1)
                           ELSE AllBacklinkResponses(Len(calls) + 1)) :
         LET your_backlinks == dataforseo_request(resp) IN
         /\ calls' = Append(calls, Call("backlinks", your_domain))
         /\ last_response' = <<resp>>
         /\ IF RaisesOnTasks(your_backlinks)
            THEN Raise("IndexError") /\ UNCHANGED <<your_bl_data, idx>>
            ELSE /\ your_bl_data' = YourBacklinks(your_backlinks)
                 /\ idx' = 1
                 /\ pc' = "comp_bl"
                 /\ UNCHANGED outcome
    /\ UNCHANGED <<keyword, your_domain, serp_items, your_position, your_url, competitors,
                   kw_metrics, landscape_data, prompt, clock, session, snapshot>>

\* one iteration of the loop over competitors[:3]
CompBlCall(few) ==
    /\ pc = "comp_bl"
    /\ idx <= Enriched(competitors)
    /\ \E resp \in (IF few THEN FewBacklinkResponses(Len(calls) + 1)
                           ELSE AllBacklinkResponses(Len(calls) + 1)) :
         LET comp_bl == dataforseo_request(resp) IN
         /\ calls' = Append(calls, Call("backlinks", competitors[idx].domain))
         /\ last_response' = <<resp>>
         /\ IF RaisesOnTasks(comp_bl)
            THEN Raise("IndexError") /\ UNCHANGED <<competitors, idx>>
            ELSE /\ competitors' = UpdateCompetitor(competitors, idx, comp_bl)
                 /\ idx' = idx + 1
                 /\ UNCHANGED <<pc, outcome>>
    /\ UNCHANGED <<keyword, your_domain, serp_items, your_position, your_url,
                   kw_metrics, your_bl_data, landscape_data, prompt, clock, session, snapshot>>

\* the loop is over: the record is returned to the handler
ReturnLandscape ==
    /\ pc = "comp_bl"
    /\ idx > Enriched(competitors)
    /\ landscape_data' = <<LandscapeRecord>>
    /\ pc' = "prompt"
    /\ UNCHANGED <<keyword, your_domain, serp_items, your_position, your_url, competitors,
                   kw_metrics, your_bl_data, idx, prompt, calls, last_response, outcome,
                   clock, session, snapshot>>

\* analyze_with_claude up to the model call: the f-strings of the prompt
BuildPrompt ==
    /\ pc = "prompt"
    /\ LET p == RenderPrompt(landscape_data[1]) IN
       IF PromptError(p) # ""
       THEN Raise(PromptError(p)) /\ UNCHANGED prompt
       ELSE /\ prompt' = <<p>>
            /\ pc' = "model"
            /\ UNCHANGED outcome
    /\ UNCHANGED <<keyword, your_domain, serp_items, your_position, your_url, competitors,
                   kw_metrics, your_bl_data, idx, landscape_data, calls, last_response,
                   clock, session, snapshot>>

AnalysisResult(analysis) ==
    [keyword |-> keyword, domain |-> your_domain, timestamp |-> clock,
     data |-> landscape_data[1], analysis |-> analysis]

\* ModelCall storing a result although the call failed
ModelCall_SavesOnError ==
    /\ pc = "model"
    /\ \E resp \in ModelResponses :
         /\ calls' = Append(calls, Call("model", keyword))
         /\ last_response' = <<resp>>
         /\ analysis_history' = Append(analysis_history, AnalysisResult(resp.text))
         /\ current_analysis' = <<AnalysisResult(resp.text)>>
         /\ pc' = "idle"
         /\ outcome' = IF resp.transport = "error" THEN "ModelError" ELSE "complete"
    /\ UNCHANGED <<keyword, your_domain, locals, clock, snapshot>>

\* client.messages.create and, when it returns, the save to the history
ModelCall ==
    /\ pc = "model"
    /\ \E resp \in ModelResponses :
         /\ calls' = Append(calls, Call("model", keyword))
         /\ last_response' = <<resp>>
         /\ IF resp.transport = "error"
            THEN Raise("ModelError") /\ UNCHANGED session
            ELSE /\ analysis_history' = Append(analysis_history, AnalysisResult(resp.text))
                 /\ current_analysis' = <<AnalysisResult(resp.text)>>
                 /\ pc' = "idle"
                 /\ outcome' = "complete"
    /\ UNCHANGED <<keyword, your_domain, locals, clock, snapshot>>

\* a button of the sidebar: one of the last five results is shown again
SelectHistory ==
    /\ pc = "idle"
    /\ \E i \in 1..Len(analysis_history) :
         /\ i > Len(analysis_history) - 5
         /\ current_analysis # <<analysis_history[i]>>
         /\ current_analysis' = <<analysis_history[i]>>
    /\ UNCHANGED <<pc, keyword, your_domain, locals, calls, last_response, outcome,
                   analysis_history, clock, snapshot>>

\* ----------------------------------------------------------- specifications
\* A session of up to MaxRuns runs; the SERP lists the site and its rivals.
Next ==
    \/ Submit(MaxRuns)
    \/ SerpCall(SessionLists)
    \/ KwCall(AllKwResponses)
    \/ SelfBlCall(FALSE)
    \/ CompBlCall(FALSE)
    \/ ReturnLandscape
    \/ BuildPrompt
    \/ ModelCall
    \/ SelectHistory

Spec == Init /\ [][Next]_vars

\* One call of analyze_competitor_landscape on every listing of WideLists.
NextLandscape ==
    \/ Submit(1)
    \/ SerpCall(WideLists)
    \/ KwCall(FewKwResponses)
    \/ SelfBlCall(TRUE)
    \/ CompBlCall(TRUE)
    \/ ReturnLandscape

SpecLandscape == Init /\ [][NextLandscape]_vars

\* ------------------------------------------------------------- properties
\* dataforseo_request gave None: transport error or top-level status not 20000
ProviderFailed(resp) == resp.transport = "error" \/ resp.status_code # OK_STATUS

\* a successful response whose first task has no result
EmptyResultSet(resp) ==
    /\ ~ProviderFailed(resp)
    /\ resp.tasks # <<>>
    /\ resp.tasks[1].result = NoResult

LastCall == calls[Len(calls)]

ModelCalled == \E k \in 1..Len(calls) : calls[k].kind = "model"

Absent(slot) == slot = Missing \/ slot = PyNone

Populated(comp) == comp.has_backlink_data /\ comp.backlink_data # EmptyBacklinks

\* the first run of the session has completed and was stored
HasHistory == prev_history # <<>>

\* the only call of the run so far is the SERP call and the SERP stage failed
SerpStageFailed ==
    /\ Len(calls) = 1
    /\ calls[1].kind = "serp"
    /\ LET r == last_response[1] IN
         \/ ProviderFailed(r)
         \/ r.tasks = <<>>
         \/ r.tasks[1].status_code # OK_STATUS

\* C1: when the mandatory SERP stage fails (transport error, top-level status
\* other than 20000, no tasks, or a first task whose status is not 20000) the
\* run returns no landscape record, issues no further call, and leaves the
\* session history as it was before the run.
C1_SerpFailureAborts ==
    /\ [](SerpStageFailed =>
            /\ landscape_data = <<>>
            /\ pc = "idle"
            /\ analysis_history = prev_history)
    /\ [][SerpStageFailed =>
            /\ calls' = calls \/ calls' = <<>>
            /\ analysis_history' = analysis_history]_vars

C1_Witness ==
    /\ SerpStageFailed
    /\ pc = "idle"
    /\ HasHistory
    /\ last_response[1].tasks # <<>>

ModelCallFailed ==
    /\ calls # <<>>
    /\ LastCall.kind = "model"
    /\ last_response[1].transport = "error"

\* C2: when the landscape record was built but the model call fails, nothing
\* is appended to the session history and current_analysis is not the result
\* of this run.
C2_ModelFailureNotStored ==
    ModelCallFailed =>
        /\ landscape_data # <<>>
        /\ analysis_history = prev_history
        /\ \/ current_analysis = <<>>
           \/ /\ current_analysis[1].timestamp # clock
              /\ \E i \in 1..Len(analysis_history) : analysis_history[i] = current_analysis[1]

C2_Witness == ModelCallFailed /\ HasHistory /\ pc = "idle"

\* C5: keyword-metrics fields that are absent in the record stay absent (not
\* 0), are each rendered as "N/A" in the prompt, and the model call is issued.
C5_AbsentMetricsRenderedNA ==
    (landscape_data # <<>> /\ pc # "prompt") =>
        LET m == landscape_data[1].keyword_metrics IN
        (Absent(m.search_volume) \/ Absent(m.keyword_difficulty) \/ Absent(m.cpc)) =>
            /\ prompt # <<>>
            /\ Absent(m.search_volume) => prompt[1].search_volume = "N/A"
            /\ Absent(m.keyword_difficulty) => prompt[1].keyword_difficulty = "N/A"
            /\ Absent(m.cpc) => prompt[1].cpc = "N/A"
            /\ pc = "idle" => ModelCalled

\* the self-backlink call is the last call issued and it failed outright
SelfCallFailed ==
    /\ Len(calls) = 3
    /\ calls[3].kind = "backlinks"
    /\ ProviderFailed(last_response[1])

ZeroBacklinks == [backlinks |-> 0, referring_domains |-> 0, rank |-> 0]

\* how many competitors are among the first three
FirstThree == Min(3, Len(competitors))

\* the calls of the backlink stages were issued, each for its own domain
BacklinkStagesRan ==
    /\ Len(calls) >= 3 + FirstThree
    /\ calls[3] = Call("backlinks", your_domain)
    /\ \A i \in 1..FirstThree : calls[3 + i] = Call("backlinks", competitors[i].domain)

KwCallDegraded ==
    /\ Len(calls) = 2
    /\ calls[2].kind = "kw"
    /\ ProviderFailed(last_response[1]) \/ EmptyResultSet(last_response[1])

CompCallLast ==
    /\ Len(calls) > 3
    /\ LastCall.kind = "backlinks"
    /\ last_response[1].tasks # <<>> \/ ProviderFailed(last_response[1])

\* C9: a failed competitor-backlink call leaves that competitor with an empty
\* profile; every other competitor among the first three is still fetched and
\* holds the profile of its own response; the run goes on to return a record.
C9_ProfilesOwn ==
    /\ \A j \in 1..Len(competitors) :
          IF j <= 3 /\ j < idx
          THEN /\ competitors[j].has_backlink_data
               /\ \/ competitors[j].backlink_data = EmptyBacklinks
                  \/ competitors[j].backlink_data = BacklinkData(Summary(3 + j))
          ELSE ~competitors[j].has_backlink_data /\ competitors[j].backlink_data = EmptyBacklinks
    /\ CompCallLast =>
          /\ idx = Len(calls) - 2
          /\ outcome # "IndexError"
          /\ IF ProviderFailed(last_response[1]) \/ EmptyResultSet(last_response[1])
             THEN competitors[idx - 1].backlink_data = EmptyBacklinks
             ELSE competitors[idx - 1].backlink_data = BacklinkData(Summary(Len(calls)))
    /\ landscape_data # <<>> =>
          /\ idx = FirstThree + 1
          /\ \A j \in 1..Len(landscape_data[1].competitors) :
                landscape_data[1].competitors[j] = competitors[j]

C9_CompetitorFailuresIsolated ==
    /\ []C9_ProfilesOwn
    /\ [][\A j \in 1..Len(competitors) :
            (Len(competitors') = Len(competitors) /\ j # idx) => competitors'[j] = competitors[j]]_vars

C9_Witness ==
    /\ landscape_data # <<>>
    /\ Len(competitors) >= 4
    /\ competitors[1].backlink_data = BacklinkData(Summary(4))
    /\ competitors[2].backlink_data = EmptyBacklinks
    /\ competitors[3].backlink_data = BacklinkData(Summary(6))

\* the calls of a complete run, in order
CanonicalCalls ==
    <<Call("serp", keyword), Call("kw", keyword), Call("backlinks", your_domain)>>
        \o [i \in 1..FirstThree |-> Call("backlinks", competitors[i].domain)]
        \o <<Call("model", keyword)>>

\* C10: the calls of a run are issued in the order SERP, keyword difficulty,
\* self backlinks, competitor backlinks (list order, at most 3), model; each
\* at most once: at most 6 provider calls and at most 1 model call.
C10_CallsInOrderOnce ==
    /\ Len(calls) <= Len(CanonicalCalls)
    /\ calls = SubSeq(CanonicalCalls, 1, Len(calls))
    /\ Cardinality({k \in 1..Len(calls) : calls[k].kind # "model"}) <= 6
    /\ Cardinality({k \in 1..Len(calls) : calls[k].kind = "model"}) <= 1

C10_Witness ==
    /\ Len(calls) = 7
    /\ LastCall.kind = "model"
    /\ outcome = "complete"

\* ---- properties of the landscape record (SpecLandscape)
IsOrganic(item) == item.type = "organic"

Matches(item) == IsOrganic(item) /\ Contains(lower(your_domain), lower(item.domain))

IsRival(item) == IsOrganic(item) /\ ~Contains(lower(your_domain), lower(item.domain))

\* C3: an organic entry matching the domain at absolute rank R gives
\* my_position = R and my_url = its URL; with no such entry the position is
\* the "not ranked" sentinel and the URL is absent; position and URL are
\* always set together.
C3_PositionAndUrlTogether ==
    landscape_data # <<>> =>
        LET d == landscape_data[1] IN
        /\ \A i \in 1..Len(serp_items) :
              (Matches(serp_items[i]) /\ serp_items[i].rank_absolute # Missing) =>
                  /\ d.my_position = serp_items[i].rank_absolute
                  /\ d.my_url = serp_items[i].url
        /\ (\A i \in 1..Len(serp_items) : ~Matches(serp_items[i])) =>
              d.my_position = NotInTop10 /\ d.my_url = PyNone
        /\ \/ d.my_position = NotInTop10 /\ d.my_url = PyNone
           \/ \E i \in 1..Len(serp_items) :
                 /\ Matches(serp_items[i])
                 /\ d.my_position = serp_items[i].rank_absolute
                 /\ d.my_url = serp_items[i].url

C8_NonOrganicIgnored ==
    landscape_data # <<>> =>
        LET d == landscape_data[1]
            ref == ParseSerp(SelectSeq(serp_items, IsOrganic), your_domain)
        IN  /\ d.my_position = ref.your_position
            /\ d.my_url = ref.your_url
            /\ d.my_url # PyNone => IsOrganic(serp_items[d.my_url])
            /\ Len(d.competitors) = Min(KEEP_TOP, Len(ref.competitors))
            /\ \A i \in 1..Len(d.competitors) :
                  /\ IsOrganic(serp_items[d.competitors[i].url])
                  /\ d.competitors[i].url = ref.competitors[i].url
                  /\ d.competitors[i].domain = ref.competitors[i].domain
                  /\ d.competitors[i].position = ref.competitors[i].position

C8_Witness ==
    /\ landscape_data # <<>>
    /\ \E i \in 1..Len(serp_items) :
          ~IsOrganic(serp_items[i]) /\ serp_items[i].domain = MatchingDomain
    /\ \E i \in 1..Len(serp_items) :
          ~IsOrganic(serp_items[i]) /\ serp_items[i].domain = OtherDomain
    /\ landscape_data[1].my_position = NotInTop10
    /\ Len(landscape_data[1].competitors) >= 1

====
